---------------------------- MODULE Spec2Model ----------------------------
(***************************************************************************)
(* The filter-and-aggregate dashboard of app.py and the workbook/report    *)
(* writer AlternateInvestments.py.                                         *)
(*                                                                         *)
(* One Streamlit script run of app.py is a sequence of steps (pc): load    *)
(* the workbook, market indices, the four filter widgets, the boolean-mask *)
(* filter, the seven summary metrics, the charts, the export section.  An  *)
(* uncaught Python exception ends the run in pc = "crashed"; st.stop()     *)
(* ends it in pc = "stopped".                                              *)
(*                                                                         *)
(* Numbers.  A cell is <<>> (NaN / None, a missing value) or <<v>> with v  *)
(* an integer number of 1/Scale(column) units: percentages and 1-10 scores *)
(* are kept in tenths, dollar amounts in whole dollars.  A mean is kept as *)
(* the exact fraction <<sum, count>>; f"{x:.2f}" and round(2) round it to  *)
(* hundredths (ties to even, as for an exactly represented double).        *)
(*                                                                         *)
(* Files.  The workbook is the one file a script reads back.  The report   *)
(* a run saves is `report`; the averages slide of AlternateInvestments.py  *)
(* is `avg`.                                                               *)
(***************************************************************************)
EXTENDS Integers, Sequences, FiniteSets, TLC

\* ---------------------------------------------------------------- bounds
\* Largest number of rows of a workbook drawn in Init.
MaxRows == 3
\* Largest number of history rows yfinance hands back for one ticker.
MaxHist == 2

\* ---------------------------------------------------------- column names
ColName      == "Investment Name"
ColCategory  == "Category"
ColReturn    == "Expected Return (%)"
ColRisk      == "Risk Level (1-10)"
ColCapRate   == "Cap Rate (%)"
\* app.py spells the next two with an en dash (U+2013), not a hyphen.
ColLiquidity == "Liquidity (1<U+2013>10)"
ColVolatility == "Volatility (1<U+2013>10)"
ColFees      == "Fees (%)"
ColMinInv    == "Minimum Investment ($)"
\* columns only AlternateInvestments.py writes
ColAltLiquidity == "Liquidity"
ColAltMinInv == "Min Investment"
ColFundManager == "Fund Manager"

\* Every column app.py indexes by name.
AppColumns ==
    {ColName, ColCategory, ColReturn, ColRisk, ColCapRate, ColLiquidity,
     ColVolatility, ColFees, ColMinInv}

\* The columns of the DataFrame AlternateInvestments.py builds and saves.
AltColumns ==
    {ColName, ColCategory, ColReturn, ColRisk, ColCapRate, ColAltLiquidity,
     ColAltMinInv, ColFundManager}

\* ------------------------------------------------------------------ cells
NaN == <<>>
Num(v) == <<v>>
IsNaN(cell) == cell = <<>>
Val(cell) == cell[1]

\* Units per 1.0 of a numeric column (the model's fixed-point scale).
Scale(col) == IF col \in {ColMinInv, ColAltMinInv} THEN 1 ELSE 10

\* ------------------------------------------------- the data of the scripts
AltRow(name, cat, er, risk, cap, liq, mininv, mgr) ==
    [c \in AltColumns |->
        CASE c = ColName -> <<name>>
          [] c = ColCategory -> <<cat>>
          [] c = ColReturn -> Num(er)
          [] c = ColRisk -> Num(risk)
          [] c = ColCapRate -> cap
          [] c = ColAltLiquidity -> <<liq>>
          [] c = ColAltMinInv -> Num(mininv)
          [] c = ColFundManager -> <<mgr>>]

\* The list `data` of AlternateInvestments.py (returns, risks and cap rates
\* in tenths).
AltData ==
    << AltRow("Large Cap Equities", "Equities", 80, 60, NaN, "High", 0, "Vanguard"),
       AltRow("Government Bonds", "Fixed Income", 40, 20, NaN, "High", 1000, "BlackRock"),
       AltRow("Money Market Funds", "Cash and Equivalents", 20, 10, NaN, "High", 100, "Fidelity"),
       AltRow("Forex Managed Account", "Currencies (Forex)", 60, 70, NaN, "High", 5000, "OANDA"),
       AltRow("REIT - Commercial", "Real Estate", 90, 50, Num(57), "Medium", 25000, "Prologis"),
       AltRow("Gold ETF", "Commodities", 60, 40, NaN, "High", 1000, "SPDR"),
       AltRow("Life Settlement Fund", "Life Settlements", 100, 60, NaN, "Low", 100000, "Abacus Life"),
       AltRow("Mezzanine Finance Fund", "Mezzanine Financing", 120, 70, NaN, "Low", 50000, "Golub Capital"),
       AltRow("Direct Lending Fund", "Direct Lending", 110, 60, NaN, "Low", 50000, "Ares Capital"),
       AltRow("Raw Land Development", "Raw Developable Land", 140, 80, Num(75), "Low", 100000, "Private Group"),
       AltRow("Fund of Funds - Alt Blend", "Fund of Funds", 90, 50, NaN, "Medium", 25000, "Partners Group"),
       AltRow("Infrastructure Fund", "Infrastructure", 85, 40, Num(60), "Medium", 50000, "Macquarie") >>

\* A row of a workbook that carries every column app.py reads.
AppRow(name, cat, er, risk, cap, liq, vol, fees, mininv) ==
    [c \in AppColumns |->
        CASE c = ColName -> <<name>>
          [] c = ColCategory -> cat
          [] c = ColReturn -> er
          [] c = ColRisk -> risk
          [] c = ColCapRate -> cap
          [] c = ColLiquidity -> liq
          [] c = ColVolatility -> vol
          [] c = ColFees -> fees
          [] c = ColMinInv -> mininv]

\* The rows the workbooks of Init are made of: complete rows, and rows with
\* each of the filtered and the averaged attributes missing.  One name is
\* written with an en dash, as the spreadsheets of the repository are.
RowPool ==
    << AppRow("Large Cap Equities", <<"Equities">>, Num(80), Num(60), NaN,
              Num(90), Num(50), Num(2), Num(0)),
       AppRow("REIT <U+2013> Commercial", <<"Real Estate">>, Num(82), Num(50), Num(57),
              Num(50), Num(40), Num(10), Num(2000)),
       AppRow("Infrastructure Fund", <<"Real Estate">>, Num(81), Num(45), Num(60),
              NaN, NaN, NaN, Num(500)),
       AppRow("Unclassified Note", NaN, Num(82), Num(40), NaN,
              Num(90), Num(30), Num(5), Num(1000)),
       AppRow("Unrated Return Fund", <<"Equities">>, NaN, Num(50), NaN,
              Num(80), Num(60), NaN, Num(1000)),
       AppRow("Unrated Risk Fund", <<"Equities">>, Num(81), NaN, NaN,
              Num(70), Num(60), Num(7), Num(2000)),
       AppRow("Raw Land Development", <<"Real Estate">>, Num(83), Num(60), Num(75),
              Num(20), Num(70), Num(15), NaN) >>

\* The rows of the workbooks that lack a column: the rows of the pool that
\* miss no value of the filtered columns.
CompleteRows == SubSeq(RowPool, 1, 3)

\* ------------------------------------------------------ sequence helpers
RECURSIVE SubSeqs(_, _)
\* The subsequences of s (order kept) of length at most n.
SubSeqs(s, n) ==
    IF s = <<>> \/ n = 0 THEN {<<>>}
    ELSE LET rest == SubSeqs(Tail(s), n)
             with == {<<Head(s)>> \o t : t \in SubSeqs(Tail(s), n - 1)}
         IN  rest \cup with

\* A row restricted to the columns cols.
Project(row, cols) == [c \in cols |-> row[c]]

ProjectAll(rows, cols) == [i \in DOMAIN rows |-> Project(rows[i], cols)]

\* ------------------------------------------------------------- workbooks
NoFile == [exists |-> FALSE, cols |-> {}, rows |-> <<>>]
Workbook(cols, rows) == [exists |-> TRUE, cols |-> cols, rows |-> rows]

\* df.to_excel("Comprehensive_Investment_Matrix.xlsx") of AlternateInvestments.py
AltWorkbook == Workbook(AltColumns, AltData)

\* The workbooks a run of app.py may find on disk: none, one with every
\* column, one that lacks a single column app.py asks for.
InitWorkbooks ==
    {NoFile}
    \cup {Workbook(AppColumns, rows) : rows \in SubSeqs(RowPool, MaxRows)}
    \cup {Workbook(AppColumns \ {c}, ProjectAll(rows, AppColumns \ {c})) :
            c \in AppColumns, rows \in SubSeqs(CompleteRows, MaxRows)}

\* ------------------------------------------------------- pandas helpers
\* df[col]: the cells of a column, in row order (the column must exist).
Column(rows, col) == [i \in DOMAIN rows |-> rows[i][col]]

RECURSIVE SumPresent(_)
\* Sum of the non-missing cells of a column (skipna).
SumPresent(cells) ==
    IF cells = <<>> THEN 0
    ELSE (IF IsNaN(Head(cells)) THEN 0 ELSE Val(Head(cells))) + SumPresent(Tail(cells))

\* Mutant of CountPresent: a missing cell is counted (as a 0 in the sum).
CountPresent_All(cells) == Len(cells)

RECURSIVE CountPresent(_)
\* Number of non-missing cells of a column (the count skipna divides by).
CountPresent(cells) ==
    IF cells = <<>> THEN 0
    ELSE (IF IsNaN(Head(cells)) THEN 0 ELSE 1) + CountPresent(Tail(cells))

\* Series.mean(): NaN when no cell is present, else the exact fraction
\* <<sum of the present cells, number of present cells>>.
Mean(cells) ==
    IF CountPresent(cells) = 0 THEN NaN
    ELSE <<SumPresent(cells), CountPresent(cells)>>

RECURSIVE MinPresent(_)
\* Series.min(): the least present cell, NaN when there is none.
MinPresent(cells) ==
    IF cells = <<>> THEN NaN
    ELSE LET m == MinPresent(Tail(cells))
         IN  IF IsNaN(Head(cells)) THEN m
             ELSE IF IsNaN(m) \/ Val(Head(cells)) <= Val(m) THEN Head(cells)
             ELSE m

RECURSIVE MaxPresent(_)
\* Series.max(): the greatest present cell, NaN when there is none.
MaxPresent(cells) ==
    IF cells = <<>> THEN NaN
    ELSE LET m == MaxPresent(Tail(cells))
         IN  IF IsNaN(Head(cells)) THEN m
             ELSE IF IsNaN(m) \/ Val(Head(cells)) >= Val(m) THEN Head(cells)
             ELSE m

\* n / d rounded to the nearest integer, ties to even (n >= 0, d > 0).
RoundHalfEven(n, d) ==
    LET q == n \div d
        r == n % d
    IN  IF 2 * r < d THEN q
        ELSE IF 2 * r > d THEN q + 1
        ELSE IF q % 2 = 0 THEN q ELSE q + 1

\* What a metric or a report line shows.
NA == <<"N/A">>
NaNText == <<"nan">>
Fixed(n) == <<"fixed", n>>

\* f"{mean:.2f}": "nan" for NaN, else the mean in hundredths.
Format2f(mean, col) ==
    IF IsNaN(mean) THEN NaNText
    ELSE Fixed(RoundHalfEven(mean[1] * 100, mean[2] * Scale(col)))

\* f"${mean:,.0f}": "$nan" for NaN, else the mean in whole units.
Format0f(mean, col) ==
    IF IsNaN(mean) THEN NaNText
    ELSE Fixed(RoundHalfEven(mean[1], mean[2] * Scale(col)))

\* int(x) of a non-negative number, kept in the column's units.
Trunc(v, col) == (v \div Scale(col)) * Scale(col)

\* ------------------------------------------------------------ sanitize
\* The columns whose cells are str; the cells of the others are numbers,
\* which sanitize_string hands back untouched (isinstance(s, str) fails).
TextColumns == {ColName, ColCategory, ColAltLiquidity, ColFundManager}

\* sanitize_string on a str cell: its en dash, curly quotes, bullet and (c)
\* sign are replaced by ASCII.
sanitize_string(s) ==
    IF s = <<"REIT <U+2013> Commercial">> THEN <<"REIT - Commercial">> ELSE s

\* df.applymap(sanitize_string): every cell, never the column labels.
ApplymapSanitize(wb) ==
    [wb EXCEPT !.rows =
        [i \in DOMAIN wb.rows |->
            [c \in wb.cols |->
                IF c \in TextColumns THEN sanitize_string(wb.rows[i][c])
                ELSE wb.rows[i][c]]]]

\* ------------------------------------------------------------- widgets
\* sorted(df['Category'].dropna().unique()), as a set.
Categories(rows) ==
    {Val(rows[i][ColCategory]) : i \in {j \in DOMAIN rows : ~IsNaN(rows[j][ColCategory])}}

\* The values a slider can hand back: min_value, min_value + step, ... up
\* to max_value (the one value min_value when the range is a point).
SliderValues(lo, hi, step) == {lo + k * step : k \in 0..((hi - lo) \div step)}

\* ------------------------------------------------------ boolean masks
\* Mutant of IsInMask: an empty selection filters nothing.
IsInMask_EmptyIsAll(rows, col, values) ==
    [i \in DOMAIN rows |->
        values = {} \/ (~IsNaN(rows[i][col]) /\ Val(rows[i][col]) \in values)]

\* df[col].isin(values)
IsInMask(rows, col, values) ==
    [i \in DOMAIN rows |-> ~IsNaN(rows[i][col]) /\ Val(rows[i][col]) \in values]

\* Mutant of GeMask: ~(df[col] < bound), which a missing cell passes.
GeMask_NotLess(rows, col, bound) ==
    [i \in DOMAIN rows |->
        ~(~IsNaN(rows[i][col]) /\ ~IsNaN(bound) /\ Val(rows[i][col]) < Val(bound))]

\* Mutant of GeMask: df[col] > bound.
GeMask_Strict(rows, col, bound) ==
    [i \in DOMAIN rows |->
        ~IsNaN(rows[i][col]) /\ ~IsNaN(bound) /\ Val(rows[i][col]) > Val(bound)]

\* df[col] >= bound; a comparison with NaN on either side is False.
GeMask(rows, col, bound) ==
    [i \in DOMAIN rows |->
        ~IsNaN(rows[i][col]) /\ ~IsNaN(bound) /\ Val(rows[i][col]) >= Val(bound)]

\* df[col] <= bound
LeMask(rows, col, bound) ==
    [i \in DOMAIN rows |->
        ~IsNaN(rows[i][col]) /\ ~IsNaN(bound) /\ Val(rows[i][col]) <= Val(bound)]

\* mask & mask
AndMask(a, b) == [i \in DOMAIN a |-> a[i] /\ b[i]]

RECURSIVE SelectRows(_, _)
\* df[mask]: the rows whose mask entry is True, in order.
SelectRows(rows, mask) ==
    IF rows = <<>> THEN <<>>
    ELSE (IF Head(mask) THEN <<Head(rows)>> ELSE <<>>)
         \o SelectRows(Tail(rows), Tail(mask))

\* The k-th criterion of the filter expression, in the order app.py
\* writes them.
CriterionMask(rows, k, cats, minInv, expRet, maxRisk) ==
    CASE k = 1 -> IsInMask(rows, ColCategory, cats)
      [] k = 2 -> GeMask(rows, ColMinInv, minInv)
      [] k = 3 -> GeMask(rows, ColReturn, expRet)
      [] k = 4 -> LeMask(rows, ColRisk, maxRisk)

\* Mutant of FilterMask: the risk criterion joined with | instead of &.
FilterMask_OrRisk(rows, cats, minInv, expRet, maxRisk) ==
    [i \in DOMAIN rows |->
        \/ /\ CriterionMask(rows, 1, cats, minInv, expRet, maxRisk)[i]
           /\ CriterionMask(rows, 2, cats, minInv, expRet, maxRisk)[i]
           /\ CriterionMask(rows, 3, cats, minInv, expRet, maxRisk)[i]
        \/ CriterionMask(rows, 4, cats, minInv, expRet, maxRisk)[i]]

\* The mask of app.py: the four criteria joined with &.
FilterMask(rows, cats, minInv, expRet, maxRisk) ==
    AndMask(AndMask(AndMask(CriterionMask(rows, 1, cats, minInv, expRet, maxRisk),
                            CriterionMask(rows, 2, cats, minInv, expRet, maxRisk)),
                    CriterionMask(rows, 3, cats, minInv, expRet, maxRisk)),
            CriterionMask(rows, 4, cats, minInv, expRet, maxRisk))

\* ------------------------------------------------------------- metrics
\* The seven st.metric calls, in order c1..c7.
MetricColumns ==
    <<ColReturn, ColRisk, ColCapRate, ColLiquidity, ColVolatility, ColFees, ColMinInv>>

\* The text of metric i over a non-empty table.
MetricText(rows, i) ==
    LET col == MetricColumns[i]
    IN  IF col = ColMinInv THEN Format0f(Mean(Column(rows, col)), col)
        ELSE Format2f(Mean(Column(rows, col)), col)

\* Mutant of MetricValue: the mean is formatted without the emptiness test.
MetricValue_Unguarded(rows, i) == MetricText(rows, i)

\* The value handed to st.metric: the formatted mean, or "N/A" when the
\* filtered table is empty (the conditional expression tests emptiness
\* before it touches the column).
MetricValue(rows, i) == IF rows # <<>> THEN MetricText(rows, i) ELSE NA

\* The first of the columns in `order` that the table lacks (0: none).
FirstAbsent(order, cols) ==
    LET bad == {i \in DOMAIN order : order[i] \notin cols}
    IN  IF bad = {} THEN 0 ELSE CHOOSE i \in bad : \A j \in bad : i <= j

\* The columns the four charts read, in order.
ChartColumns ==
    <<ColName, ColReturn, ColVolatility, ColLiquidity, ColFees, ColReturn, ColRisk>>

\* The columns a report reads, in order.
ReportColumns == <<ColReturn, ColRisk, ColFees>>

\* The three lines generate_ppt_report / generate_word_report write.
ReportLines(rows) ==
    [i \in DOMAIN ReportColumns |->
        Format2f(Mean(Column(rows, ReportColumns[i])), ReportColumns[i])]

\* export_format -> the file the matching generator saves.
ReportFile(format) ==
    IF format = "PowerPoint" THEN "portfolio_report.pptx" ELSE "portfolio_report.docx"

\* ------------------------------------------------------ program constants
\* step=1000 of the Minimum Investment slider, in dollars
MinInvStep == 1000
\* step=0.1 of the Minimum Expected Return slider, in tenths
ExpRetStep == 1
\* step=1 of the Maximum Risk Level slider, in tenths
RiskStep == 10

Tickers == {"^GSPC", "^IXIC", "^DJI"}
ExportFormats == {"PowerPoint", "Word Document"}

\* ------------------------------------------------------------------ state
VARIABLES
    workbook,             \* Comprehensive_Investment_Matrix.xlsx, or NoFile
    avg,                  \* avg of AlternateInvestments.py, as its averages
                          \* slide shows it (<<>> before the script ran)
    pc,                   \* the step of app.py the run is at
    outcome,              \* "idle", "running", "done", "stopped", "crashed"
    exception,            \* the uncaught exception of a crashed run
    error,                \* st.error was shown
    df,                   \* the loaded, sanitized DataFrame
    categories,           \* options of the multiselect
    selected_categories,  \* value of the multiselect
    min_inv,              \* value of the three sliders (NaN before they ran)
    exp_ret,
    max_risk,
    filtered_df,          \* rows of the filtered table
    metrics,              \* what the st.metric calls made so far show
    export_format,        \* value of the radio
    button,               \* Generate Report was pressed in this run
    warning,              \* st.warning was shown
    report,               \* <<file, lines>>: the report file saved in this run
    download              \* file offered by st.download_button

persistent == <<workbook, avg>>
widgets == <<categories, selected_categories, min_inv, exp_ret, max_risk>>
exports == <<export_format, button, warning, report, download>>
vars == <<workbook, avg, pc, outcome, exception, error, df, categories,
          selected_categories, min_inv, exp_ret, max_risk, filtered_df,
          metrics, export_format, button, warning, report, download>>

\* The steps of one script run, in program order.
Steps ==
    <<"load", "indices", "categories", "min_inv", "exp_ret", "max_risk",
      "filter", "metrics", "charts", "export", "end">>

StepIndex(s) == CHOOSE i \in DOMAIN Steps : Steps[i] = s

\* The run has completed step s (a run that crashed or stopped in s has not).
Passed(s) == outcome # "idle" /\ StepIndex(pc) > StepIndex(s)

\* The values of a run that has executed nothing yet.
FreshRun ==
    /\ exception = ""
    /\ error = FALSE
    /\ df = NoFile
    /\ categories = {}
    /\ selected_categories = {}
    /\ min_inv = NaN
    /\ exp_ret = NaN
    /\ max_risk = NaN
    /\ filtered_df = <<>>
    /\ metrics = <<>>
    /\ export_format = ""
    /\ button = FALSE
    /\ warning = FALSE
    /\ report = <<>>
    /\ download = ""

Init ==
    /\ workbook \in InitWorkbooks
    /\ avg = <<>>
    /\ pc = "load"
    /\ outcome = "idle"
    /\ FreshRun

\* An uncaught exception ends the script run where it is.
Crash(exc) == outcome' = "crashed" /\ exception' = exc /\ pc' = pc

\* Streamlit runs the script from the top: on page load and on every
\* widget interaction.
StartRun ==
    /\ outcome # "running"
    /\ pc' = "load"
    /\ outcome' = "running"
    /\ exception' = ""
    /\ error' = FALSE
    /\ df' = NoFile
    /\ categories' = {}
    /\ selected_categories' = {}
    /\ min_inv' = NaN
    /\ exp_ret' = NaN
    /\ max_risk' = NaN
    /\ filtered_df' = <<>>
    /\ metrics' = <<>>
    /\ export_format' = ""
    /\ button' = FALSE
    /\ warning' = FALSE
    /\ report' = <<>>
    /\ download' = ""
    /\ UNCHANGED persistent

\* Mutant of LoadFailed: the error is shown and the script goes on.
LoadFailed_NoStop ==
    /\ error' = TRUE
    /\ pc' = "indices"
    /\ UNCHANGED <<outcome, df>>

\* try: df = pd.read_excel(...); df = df.applymap(sanitize_string)
\* except Exception as e: st.error(...); st.stop()
LoadFailed ==
    /\ error' = TRUE
    /\ outcome' = "stopped"
    /\ UNCHANGED <<pc, df>>

LoadData ==
    /\ outcome = "running" /\ pc = "load"
    /\ IF workbook.exists
       THEN /\ df' = ApplymapSanitize(workbook)
            /\ pc' = "indices"
            /\ UNCHANGED <<outcome, error>>
       ELSE LoadFailed
    /\ UNCHANGED <<persistent, exception, widgets, filtered_df, metrics, exports>>

\* The loop over the three tickers: an empty history shows "Data
\* unavailable"; data.iloc[-2] of a one-row history raises IndexError.
MarketIndices ==
    /\ outcome = "running" /\ pc = "indices"
    /\ \E hist \in [Tickers -> 0..MaxHist] :
        IF \E t \in Tickers : hist[t] = 1
        THEN Crash("IndexError")
        ELSE pc' = "categories" /\ UNCHANGED <<outcome, exception>>
    /\ UNCHANGED <<persistent, error, df, widgets, filtered_df, metrics, exports>>

\* categories = sorted(df['Category'].dropna().unique())
\* selected_categories = st.multiselect(..., categories, default=categories)
SelectCategories ==
    /\ outcome = "running" /\ pc = "categories"
    /\ IF ColCategory \notin df.cols
       THEN /\ Crash("KeyError")
            /\ UNCHANGED <<categories, selected_categories>>
       ELSE /\ categories' = Categories(df.rows)
            /\ \E sel \in SUBSET Categories(df.rows) : selected_categories' = sel
            /\ pc' = "min_inv"
            /\ UNCHANGED <<outcome, exception>>
    /\ UNCHANGED <<persistent, error, df, min_inv, exp_ret, max_risk,
                   filtered_df, metrics, exports>>

\* min_inv_default = int(df[...].min()); max_inv_default = int(df[...].max())
\* min_inv = st.slider(..., step=1000)
SliderMinInv ==
    /\ outcome = "running" /\ pc = "min_inv"
    /\ IF ColMinInv \notin df.cols
       THEN Crash("KeyError") /\ UNCHANGED min_inv
       ELSE LET lo == MinPresent(Column(df.rows, ColMinInv))
                hi == MaxPresent(Column(df.rows, ColMinInv))
            IN  IF IsNaN(lo)
                THEN Crash("ValueError") /\ UNCHANGED min_inv
                ELSE /\ \E v \in SliderValues(Trunc(Val(lo), ColMinInv),
                                              Trunc(Val(hi), ColMinInv), MinInvStep) :
                            min_inv' = Num(v)
                     /\ pc' = "exp_ret"
                     /\ UNCHANGED <<outcome, exception>>
    /\ UNCHANGED <<persistent, error, df, categories, selected_categories,
                   exp_ret, max_risk, filtered_df, metrics, exports>>

\* exp_ret_min = float(df[...].min()); exp_ret_max = float(df[...].max())
\* exp_ret = st.slider(..., step=0.1).  float(nan) is nan: what st.slider does
\* with nan bounds is the library's business, so it may raise or hand the
\* nan back.
SliderExpRet ==
    /\ outcome = "running" /\ pc = "exp_ret"
    /\ IF ColReturn \notin df.cols
       THEN Crash("KeyError") /\ UNCHANGED exp_ret
       ELSE LET lo == MinPresent(Column(df.rows, ColReturn))
                hi == MaxPresent(Column(df.rows, ColReturn))
            IN  IF IsNaN(lo)
                THEN \E raises \in BOOLEAN :
                        IF raises
                        THEN Crash("StreamlitAPIException") /\ UNCHANGED exp_ret
                        ELSE /\ exp_ret' = NaN
                             /\ pc' = "max_risk"
                             /\ UNCHANGED <<outcome, exception>>
                ELSE /\ \E v \in SliderValues(Val(lo), Val(hi), ExpRetStep) :
                            exp_ret' = Num(v)
                     /\ pc' = "max_risk"
                     /\ UNCHANGED <<outcome, exception>>
    /\ UNCHANGED <<persistent, error, df, categories, selected_categories,
                   min_inv, max_risk, filtered_df, metrics, exports>>

\* risk_min = int(df[...].min()); risk_max = int(df[...].max())
\* max_risk = st.slider(..., step=1)
SliderRisk ==
    /\ outcome = "running" /\ pc = "max_risk"
    /\ IF ColRisk \notin df.cols
       THEN Crash("KeyError") /\ UNCHANGED max_risk
       ELSE LET lo == MinPresent(Column(df.rows, ColRisk))
                hi == MaxPresent(Column(df.rows, ColRisk))
            IN  IF IsNaN(lo)
                THEN Crash("ValueError") /\ UNCHANGED max_risk
                ELSE /\ \E v \in SliderValues(Trunc(Val(lo), ColRisk),
                                              Trunc(Val(hi), ColRisk), RiskStep) :
                            max_risk' = Num(v)
                     /\ pc' = "filter"
                     /\ UNCHANGED <<outcome, exception>>
    /\ UNCHANGED <<persistent, error, df, categories, selected_categories,
                   min_inv, exp_ret, filtered_df, metrics, exports>>

\* filtered_df = df[ isin & >= & >= & <= ]
FilterData ==
    /\ outcome = "running" /\ pc = "filter"
    /\ filtered_df' = SelectRows(df.rows,
            FilterMask(df.rows, selected_categories, min_inv, exp_ret, max_risk))
    /\ pc' = "metrics"
    /\ UNCHANGED <<persistent, outcome, exception, error, df, widgets, metrics, exports>>

\* c1.metric(...) ... c7.metric(...): the first column the table lacks
\* raises KeyError, after the metrics before it were shown.
SummaryMetrics ==
    /\ outcome = "running" /\ pc = "metrics"
    /\ LET k == IF filtered_df = <<>> THEN 0 ELSE FirstAbsent(MetricColumns, df.cols)
           n == IF k = 0 THEN Len(MetricColumns) ELSE k - 1
       IN  /\ metrics' = [i \in 1..n |-> MetricValue(filtered_df, i)]
           /\ IF k = 0
              THEN pc' = "charts" /\ UNCHANGED <<outcome, exception>>
              ELSE Crash("KeyError")
    /\ UNCHANGED <<persistent, error, df, widgets, filtered_df, exports>>

\* The four charts read their columns whether the table is empty or not.
VisualInsights ==
    /\ outcome = "running" /\ pc = "charts"
    /\ IF FirstAbsent(ChartColumns, df.cols) = 0
       THEN pc' = "export" /\ UNCHANGED <<outcome, exception>>
       ELSE Crash("KeyError")
    /\ UNCHANGED <<persistent, error, df, widgets, filtered_df, metrics, exports>>

\* generate_ppt_report / generate_word_report and the download button.
GenerateReport(format) ==
    IF FirstAbsent(ReportColumns, df.cols) # 0
    THEN /\ Crash("KeyError")
         /\ UNCHANGED <<report, download>>
    ELSE /\ report' = <<ReportFile(format), ReportLines(filtered_df)>>
         /\ download' = ReportFile(format)
         /\ pc' = "end"
         /\ outcome' = "done"
         /\ UNCHANGED exception

\* Mutant of ExportReports: the report is generated without the emptiness
\* test.
ExportReports_NoEmptyCheck ==
    /\ outcome = "running" /\ pc = "export"
    /\ \E format \in ExportFormats, pressed \in BOOLEAN :
        /\ export_format' = format
        /\ button' = pressed
        /\ IF pressed
           THEN GenerateReport(format) /\ UNCHANGED warning
           ELSE /\ warning' = FALSE
                /\ pc' = "end"
                /\ outcome' = "done"
                /\ UNCHANGED <<report, download, exception>>
    /\ UNCHANGED <<workbook, avg, error, df, widgets, filtered_df, metrics>>

\* export_format = st.radio(...); if st.button("Generate Report"): ...
ExportReports ==
    /\ outcome = "running" /\ pc = "export"
    /\ \E format \in ExportFormats, pressed \in BOOLEAN :
        /\ export_format' = format
        /\ button' = pressed
        /\ IF pressed /\ filtered_df # <<>>
           THEN GenerateReport(format) /\ UNCHANGED warning
           ELSE /\ warning' = pressed
                /\ pc' = "end"
                /\ outcome' = "done"
                /\ UNCHANGED <<report, download, exception>>
    /\ UNCHANGED <<workbook, avg, error, df, widgets, filtered_df, metrics>>

\* avg = df[[...]].mean(numeric_only=True).round(2)
Round2(mean, col) ==
    IF IsNaN(mean) THEN NaNText
    ELSE Fixed(RoundHalfEven(mean[1] * 100, mean[2] * Scale(col)))

AvgColumns == {ColReturn, ColRisk, ColCapRate}

\* AlternateInvestments.py from top to bottom: the workbook, the chart, the
\* averages slide, the presentation.
RunAlternateInvestments ==
    /\ outcome # "running"
    /\ workbook' = AltWorkbook
    /\ avg' = [c \in AvgColumns |-> Round2(Mean(Column(AltData, c)), c)]
    /\ UNCHANGED <<pc, outcome, exception, error, df, widgets, filtered_df,
                   metrics, exports>>

Next ==
    \/ StartRun
    \/ LoadData
    \/ MarketIndices
    \/ SelectCategories
    \/ SliderMinInv
    \/ SliderExpRet
    \/ SliderRisk
    \/ FilterData
    \/ SummaryMetrics
    \/ VisualInsights
    \/ ExportReports
    \/ RunAlternateInvestments

Spec == Init /\ [][Next]_vars

\* ================================================================ claims
Range(seq) == {seq[i] : i \in DOMAIN seq}

\* The run has a filtered table.
HasFiltered == Passed("filter")

\* Row r meets the four criteria as the claim words them.
MeetsCriteria(r) ==
    /\ ~IsNaN(r[ColCategory]) /\ Val(r[ColCategory]) \in selected_categories
    /\ ~IsNaN(r[ColMinInv]) /\ ~IsNaN(min_inv) /\ Val(r[ColMinInv]) >= Val(min_inv)
    /\ ~IsNaN(r[ColReturn]) /\ ~IsNaN(exp_ret) /\ Val(r[ColReturn]) >= Val(exp_ret)
    /\ ~IsNaN(r[ColRisk]) /\ ~IsNaN(max_risk) /\ Val(r[ColRisk]) <= Val(max_risk)

\* C1: the filtered table holds exactly the rows of the loaded dataset
\* whose Category is selected, whose Minimum Investment and Expected Return
\* are at least the chosen minimums and whose Risk Level is at most the
\* chosen maximum; every row of it is a row of the loaded dataset.
C1_FilteredExactly ==
    HasFiltered =>
        /\ Range(filtered_df) = {r \in Range(df.rows) : MeetsCriteria(r)}
        /\ Len(filtered_df) = Cardinality({i \in DOMAIN df.rows : MeetsCriteria(df.rows[i])})

C1_Witness ==
    /\ HasFiltered
    /\ filtered_df # <<>>
    /\ Len(filtered_df) < Len(df.rows)
    /\ selected_categories = categories

\* C2: over a non-empty filtered table, an averaged attribute that every
\* row lacks is shown as "N/A", never as "nan".
C2_AllMissingIsUnavailable ==
    \A i \in DOMAIN metrics :
        (/\ filtered_df # <<>>
         /\ \A j \in DOMAIN filtered_df : IsNaN(filtered_df[j][MetricColumns[i]]))
        => metrics[i] = NA

\* C3: a run whose dataset lacks a column app.py asks for does not fail on
\* that column.
C3_AbsentColumnDoesNotFail ==
    (df.exists /\ AppColumns \ df.cols # {})
        => ~(outcome = "crashed" /\ exception = "KeyError")

\* C4: when the filtered table is empty, each of the seven metrics shows
\* "N/A" and the metrics step raises nothing.
C4_EmptyFilteredAllNA ==
    (HasFiltered /\ filtered_df = <<>> /\ StepIndex(pc) >= StepIndex("metrics")
        /\ ~(pc = "metrics" /\ outcome = "running"))
    => /\ Passed("metrics")
       /\ Len(metrics) = Len(MetricColumns)
       /\ \A i \in DOMAIN metrics : metrics[i] = NA

C4_Witness ==
    /\ Passed("metrics")
    /\ filtered_df = <<>>
    /\ df.rows # <<>>
    /\ Len(metrics) = 7

\* C5: a row whose Minimum Investment, Expected Return or Risk Level is
\* missing is never in the filtered table, whatever the widgets say.
C5_MissingNeverKept ==
    HasFiltered =>
        \A i \in DOMAIN filtered_df :
            /\ ~IsNaN(filtered_df[i][ColMinInv])
            /\ ~IsNaN(filtered_df[i][ColReturn])
            /\ ~IsNaN(filtered_df[i][ColRisk])

\* The three sliders stand where app.py puts them by default.
DefaultSliders ==
    /\ min_inv = Num(Trunc(Val(MinPresent(Column(df.rows, ColMinInv))), ColMinInv))
    /\ exp_ret = MinPresent(Column(df.rows, ColReturn))
    /\ max_risk = Num(Trunc(Val(MaxPresent(Column(df.rows, ColRisk))), ColRisk))

C5_Witness ==
    /\ HasFiltered
    /\ filtered_df # <<>>
    /\ selected_categories = categories
    /\ DefaultSliders
    /\ \E r \in Range(df.rows) :
        /\ IsNaN(r[ColReturn])
        /\ ~IsNaN(r[ColCategory])
        /\ r \notin Range(filtered_df)

\* C6: with no category selected the filtered table is empty.
C6_EmptySelectionEmptyTable ==
    (HasFiltered /\ selected_categories = {}) => filtered_df = <<>>

C6_Witness ==
    /\ HasFiltered
    /\ selected_categories = {}
    /\ categories # {}
    /\ Len(df.rows) >= 2

RECURSIVE ApplyInOrder(_, _)
\* The criteria applied one after the other, in the order `order` lists
\* them, each to what the ones before it kept.
ApplyInOrder(rows, order) ==
    IF order = <<>> THEN rows
    ELSE ApplyInOrder(
            SelectRows(rows, CriterionMask(rows, Head(order), selected_categories,
                                           min_inv, exp_ret, max_risk)),
            Tail(order))

CriteriaOrders ==
    {p \in [1..4 -> 1..4] : \A a, b \in 1..4 : a # b => p[a] # p[b]}

\* C7: whatever the order the four criteria are applied in, the rows kept
\* are those of app.py's filtered table.
C7_OrderIndependent ==
    HasFiltered => \A p \in CriteriaOrders : ApplyInOrder(df.rows, p) = filtered_df

C7_Witness ==
    /\ HasFiltered
    /\ filtered_df # <<>>
    /\ Len(filtered_df) + 2 <= Len(df.rows)
    /\ selected_categories # categories
    /\ ~DefaultSliders

RECURSIVE SumOver(_, _)
\* The sum of the cells of `cells` at the indices in S.
SumOver(cells, S) ==
    IF S = {} THEN 0
    ELSE LET i == CHOOSE j \in S : TRUE
         IN  Val(cells[i]) + SumOver(cells, S \ {i})

PresentAt(cells) == {i \in DOMAIN cells : ~IsNaN(cells[i])}

\* The mean of the present cells as text with `digits` decimals.
ExpectedText(cells, col, digits) ==
    Fixed(RoundHalfEven(SumOver(cells, PresentAt(cells)) * digits,
                        Cardinality(PresentAt(cells)) * Scale(col)))

\* C8: an average over a column with at least one present value is the sum
\* of the present values over their number; a missing value is in neither.
C8_MeanOverPresent ==
    /\ \A i \in DOMAIN metrics :
        LET cells == Column(filtered_df, MetricColumns[i])
        IN  (filtered_df # <<>> /\ PresentAt(cells) # {}) =>
                /\ Mean(cells) = <<SumOver(cells, PresentAt(cells)),
                                   Cardinality(PresentAt(cells))>>
                /\ metrics[i] = ExpectedText(cells, MetricColumns[i],
                                    IF MetricColumns[i] = ColMinInv THEN 1 ELSE 100)
    /\ \A c \in DOMAIN avg :
        avg[c] = ExpectedText(Column(AltData, c), c, 100)

C8_Witness ==
    /\ Len(metrics) = 7
    /\ Len(filtered_df) = 3
    /\ Cardinality(PresentAt(Column(filtered_df, ColCapRate))) = 2
    /\ metrics[3] = Fixed(585)
    /\ avg # <<>>
    /\ avg[ColCapRate] = Fixed(640)

\* Nothing after the load has run.
NothingComputed ==
    /\ categories = {} /\ selected_categories = {}
    /\ min_inv = NaN /\ exp_ret = NaN /\ max_risk = NaN
    /\ filtered_df = <<>> /\ metrics = <<>>
    /\ export_format = "" /\ button = FALSE /\ warning = FALSE
    /\ report = <<>> /\ download = ""

\* C9: a run whose load failed shows the error and stops there: no widget,
\* no filtering, no average, no report, no exception; and no run gets past
\* the load without a dataset.
C9_LoadFailureStops ==
    /\ error => /\ outcome = "stopped" /\ pc = "load"
                /\ exception = ""
                /\ ~df.exists
                /\ NothingComputed
    /\ Passed("load") => df.exists /\ ~error

C9_Witness == error /\ outcome = "stopped" /\ ~workbook.exists

\* C10: a report is saved and offered only in a run where Generate Report
\* was pressed over a non-empty filtered table, in the chosen format;
\* pressing it over an empty table warns, saves nothing and raises nothing.
C10_ReportOnlyWhenPressedNonEmpty ==
    /\ (report # <<>> \/ download # "") =>
        /\ button /\ filtered_df # <<>>
        /\ report # <<>> /\ download = report[1]
        /\ export_format = "PowerPoint" => report[1] = "portfolio_report.pptx"
        /\ export_format = "Word Document" => report[1] = "portfolio_report.docx"
        /\ ~warning
    /\ (button /\ filtered_df = <<>>) =>
        /\ warning /\ report = <<>> /\ download = ""
        /\ outcome = "done" /\ exception = ""

C10_Witness ==
    /\ outcome = "done" /\ button /\ filtered_df # <<>>
    /\ export_format = "Word Document"
    /\ report # <<>> /\ report[1] = "portfolio_report.docx"

=============================================================================
